---- MODULE Spec2Model ----
(***************************************************************************)
(* A model of the two programs of the dash repository:                     *)
(*                                                                         *)
(*   agent_bridge.py  one-shot adapter: JSON payload on stdin, one SDK     *)
(*                    query, SSE lines on stdout (build_prompt, emit,      *)
(*                    emit_done, main)                                     *)
(*   agent.py         interactive chat loop with a tool relay (run_tool,   *)
(*                    load_system_prompt, format_tool_call, chat)          *)
(*                                                                         *)
(* Text is a sequence of atoms (one-character strings, or a literal        *)
(* fragment of a format string), so that slicing and concatenation are     *)
(* what the code does.  Python's 0-based block indices are kept.           *)
(***************************************************************************)
EXTENDS Integers, Sequences, FiniteSets, TLC

VARIABLES
    \* ---- agent_bridge.py
    stdin,          \* what is waiting on standard input
    b_pc,           \* "start" | "streaming" | "done" | "crashed"
    system,         \* main's local `system`, from build_prompt
    prompt,         \* main's local `prompt`, from build_prompt; handed to query()
    options,        \* ClaudeCodeOptions(system_prompt, model)
    text_lens,      \* block index -> characters of text emitted
    think_lens,     \* block index -> characters of reasoning emitted
    seen_tools,     \* block indices whose tool call was announced
    was_assistant,  \* the previous message was an AssistantMessage
    out,            \* the lines written to standard output, in order
    consumed,       \* messages taken from the SDK stream so far
    last_msg,       \* the message handled last (history, for the claims)
    prev_msg,       \* the message handled before it (history, for the claims)
    turn_msgs,      \* the contents of the assistant messages handled since the
                    \* tracking was last cleared; empty after any other message (history)
    turn_start,     \* len(out) when the tracking was last cleared (history)
    \* ---- agent.py: one call of run_tool
    t_name,         \* the tool name
    t_args,         \* the arguments
    t_proc,         \* what the dashmcp subprocess does in this call
    t_pc,           \* "off" | "called" | "returned" | "raised"
    t_result,       \* what run_tool returned or raised
    \* ---- agent.py: chat
    c_pc,           \* "off" | "init" | "input" | "api_first" | "tool_exec" |
                    \* "api_again" | "exited" | "crashed"
    c_system,       \* the system prompt built at startup
    messages,       \* the conversation history
    response,       \* the latest API response
    tool_results,   \* the tool results collected for `response`
    tool_k,         \* the tool block of `response` run_tool is called for next
    farewell,       \* the farewell message was printed
    api_calls,      \* API calls made so far
    line_calls,     \* API calls made since the latest user line (history)
    hist_at_prompt, \* `messages` when the latest user line was read (history)
    last_call,      \* how the latest API call ended: "none" | "ok" | "tool_use" |
                    \* "failed_first" | "failed_again" (history)
    hist_at_call    \* `messages` as passed to the latest API call (history)

tool_vars == <<t_name, t_args, t_proc, t_pc, t_result>>

bridge_vars == <<stdin, b_pc, system, prompt, options, text_lens, think_lens,
                 seen_tools, was_assistant, out, consumed, last_msg, prev_msg,
                 turn_msgs, turn_start>>

chat_vars == <<c_pc, c_system, messages, response, tool_results, tool_k, farewell,
               api_calls, line_calls, hist_at_prompt, last_call, hist_at_call>>

vars == <<bridge_vars, tool_vars, chat_vars>>

\* ------------------------------------------------------------------------
\* Bounds and input alphabets
\* ------------------------------------------------------------------------

\* Messages the bridge takes from the SDK stream in one run.
MaxMsgs == 3

\* Messages in one payload of the bridge, where every payload is tried.
MaxPromptMsgs == 3

\* Lines, blank ones included, on the standard output of the tool subprocess.
MaxLines == 3

\* API calls in one run of the chat loop.
MaxApiCalls == 4

\* The full texts an SDK block may report: a text and an extension of it (the
\* shorter after the longer is a re-delivery that extends nothing).
Texts == {<<"a">>, <<"a", "b">>}

\* The full reasoning texts a thinking block may report.
Thinkings == {<<"a">>, <<"a", "b">>}

\* The token counts a ResultMessage may report.
TokenCounts == {0, 7}

EmptyDict == [i \in {} |-> 0]

\* dict.get(key, 0)
Get(d, key) == IF key \in DOMAIN d THEN d[key] ELSE 0

\* d[key] = value
Put(d, key, value) == [k \in (DOMAIN d) \cup {key} |-> IF k = key THEN value ELSE d[k]]

\* Mutant of SliceFrom: the whole text, not the part after prev.
SliceFrom_Whole(text, prev) == text

\* Mutant of SliceFrom: the slice starts one character late.
SliceFrom_OffByOne(text, prev) == SubSeq(text, prev + 2, Len(text))

\* text[prev:]
SliceFrom(text, prev) == SubSeq(text, prev + 1, Len(text))

RECURSIVE Join(_, _)
\* sep.join(parts)
Join(parts, sep) ==
    IF parts = <<>> THEN <<>>
    ELSE IF Len(parts) = 1 THEN parts[1]
    ELSE parts[1] \o sep \o Join(Tail(parts), sep)

\* ------------------------------------------------------------------------
\* agent_bridge.py: build_prompt
\* ------------------------------------------------------------------------

\* One message of the payload.  msg.get("role", "") and msg.get("content", "")
\* read a missing key as the empty string.
Msg(role, content) == [role |-> role, content |-> content]

\* Mutant of TurnOf: every message that is not a system message adds a turn.
TurnOf_EveryNonSystem(msg) ==
    IF msg.role = "system" THEN <<>>
    ELSE <<[role |-> IF msg.role = "user" THEN "User" ELSE "Assistant",
            text |-> msg.content]>>

\* The turn one message adds to `history`: a user message always, an assistant
\* message only with non-empty content, any other role nothing.
TurnOf(msg) ==
    IF msg.role = "user" THEN <<[role |-> "User", text |-> msg.content]>>
    ELSE IF msg.role = "assistant" /\ msg.content # <<>>
         THEN <<[role |-> "Assistant", text |-> msg.content]>>
    ELSE <<>>

RECURSIVE HistoryOf_Prepends(_)
\* Mutant of HistoryOf: each turn is put in front of the earlier ones.
HistoryOf_Prepends(msgs) ==
    IF msgs = <<>> THEN <<>>
    ELSE HistoryOf_Prepends(Tail(msgs)) \o TurnOf(Head(msgs))

RECURSIVE HistoryOf(_)
\* `history` after the loop over the messages.
HistoryOf(msgs) ==
    IF msgs = <<>> THEN <<>>
    ELSE TurnOf(Head(msgs)) \o HistoryOf(Tail(msgs))

RECURSIVE SystemOf(_)
\* `system` after the loop over the messages: the last system content.
SystemOf(msgs) ==
    IF msgs = <<>> THEN <<>>
    ELSE IF msgs[Len(msgs)].role = "system" THEN msgs[Len(msgs)].content
    ELSE SystemOf(SubSeq(msgs, 1, Len(msgs) - 1))

\* f"{role}: {text}"
HistoryLine(turn) == <<turn.role, ": ">> \o turn.text

\* f"<conversation_history>\n{context}\n</conversation_history>\n\n{last[1]}"
WithContext(history) ==
    LET n == Len(history)
        context == Join([i \in 1..(n - 1) |-> HistoryLine(history[i])], <<"\n\n">>)
    IN  <<"<conversation_history>\n">> \o context
            \o <<"\n</conversation_history>\n\n">> \o history[n].text

\* Mutant of PromptOf: the single-turn case is not told apart.
PromptOf_AlwaysContext(history) ==
    LET last == history[Len(history)] IN
    IF last.role # "User" THEN last.text
    ELSE WithContext(history)

\* The prompt chosen from a non-empty history.
PromptOf(history) ==
    LET last == history[Len(history)] IN
    IF last.role # "User" THEN last.text
    ELSE IF Len(history) = 1 THEN last.text
    ELSE WithContext(history)

\* Mutant of BuildPrompt: with no turn, the system content is returned as the
\* prompt too.
BuildPrompt_SystemAsPrompt(msgs) ==
    LET history == HistoryOf(msgs) IN
    IF history = <<>> THEN [system |-> SystemOf(msgs), prompt |-> SystemOf(msgs)]
    ELSE [system |-> SystemOf(msgs), prompt |-> PromptOf(history)]

\* build_prompt(messages): (system_prompt, user_prompt).
BuildPrompt(msgs) ==
    LET history == HistoryOf(msgs) IN
    IF history = <<>> THEN [system |-> SystemOf(msgs), prompt |-> <<>>]
    ELSE [system |-> SystemOf(msgs), prompt |-> PromptOf(history)]

\* ------------------------------------------------------------------------
\* agent_bridge.py: emit, emit_done
\* ------------------------------------------------------------------------

\* The lines of standard output.  `blk` is the index of the content block a
\* delta was computed from (-1: none); it is not on the wire.
ContentDelta(text, blk) == [kind |-> "content", text |-> text, blk |-> blk]

ReasoningDelta(text, blk) == [kind |-> "reasoning", text |-> text, blk |-> blk]

\* json.dumps(block.input) if isinstance(block.input, dict) else str(block.input)
Arguments(block) ==
    [enc |-> IF block.input_is_dict THEN "json.dumps" ELSE "str", of |-> block.id]

ToolCallDelta(block, blk) ==
    [kind |-> "tool_calls", index |-> 0, id |-> block.id, type |-> "function",
     name |-> block.name, arguments |-> Arguments(block), blk |-> blk]

UsageEvent(prompt_tok, comp_tok) ==
    [kind |-> "usage", prompt_tokens |-> prompt_tok, completion_tokens |-> comp_tok,
     total_tokens |-> prompt_tok + comp_tok]

\* data: [DONE]
Sentinel == [kind |-> "[DONE]"]

\* Mutant of EmitDone: the sentinel is written inside the `if`.
EmitDone_SentinelInsideIf(prompt_tok, comp_tok) ==
    IF prompt_tok # 0 \/ comp_tok # 0
    THEN <<UsageEvent(prompt_tok, comp_tok), Sentinel>>
    ELSE <<>>

\* Mutant of EmitDone: `and` for `or` in the usage test.
EmitDone_UsageNeedsBoth(prompt_tok, comp_tok) ==
    (IF prompt_tok # 0 /\ comp_tok # 0 THEN <<UsageEvent(prompt_tok, comp_tok)>> ELSE <<>>)
        \o <<Sentinel>>

\* emit_done(prompt_tok, comp_tok): the lines it writes.
EmitDone(prompt_tok, comp_tok) ==
    (IF prompt_tok # 0 \/ comp_tok # 0 THEN <<UsageEvent(prompt_tok, comp_tok)>> ELSE <<>>)
        \o <<Sentinel>>

\* ------------------------------------------------------------------------
\* agent_bridge.py: the SDK's messages and content blocks
\* ------------------------------------------------------------------------

TextBlock(text) ==
    [type |-> "text", text |-> text, id |-> "", name |-> "", input_is_dict |-> TRUE]

\* block.thinking is held in the text field.
ThinkingBlock(thinking) ==
    [type |-> "thinking", text |-> thinking, id |-> "", name |-> "", input_is_dict |-> TRUE]

ToolUseBlock(id, name, input_is_dict) ==
    [type |-> "tool_use", text |-> <<>>, id |-> id, name |-> name,
     input_is_dict |-> input_is_dict]

NoUsage == [present |-> FALSE, input_tokens |-> 0, output_tokens |-> 0]

AssistantMessage(content) == [type |-> "assistant", content |-> content, usage |-> NoUsage]

ResultMessage(usage) == [type |-> "result", content |-> <<>>, usage |-> usage]

\* A SystemMessage, UserMessage or StreamEvent: neither assistant nor result.
OtherMessage == [type |-> "other", content |-> <<>>, usage |-> NoUsage]

\* No message handled yet.
NoMessage == [type |-> "none", content |-> <<>>, usage |-> NoUsage]

\* A tool call whose input is a dict, and one whose input is not.
ToolUse1 == ToolUseBlock("toolu_1", "exec", TRUE)

ToolUse2 == ToolUseBlock("toolu_2", "read", FALSE)

Blocks ==
    {TextBlock(t) : t \in Texts} \cup {ThinkingBlock(t) : t \in Thinkings} \cup {ToolUse1}

\* message.content of the assistant messages of the stream: no block, one
\* block, or two blocks (two tool calls have different ids).
AssistantContents ==
    {<<>>} \cup {<<b>> : b \in Blocks}
        \cup ({<<b, c>> : b \in Blocks, c \in Blocks} \ {<<ToolUse1, ToolUse1>>})
        \cup {<<ToolUse1, ToolUse2>>}

\* message.usage of a ResultMessage: None, or a dict whose missing keys read 0.
Usages ==
    {NoUsage} \cup
    {[present |-> TRUE, input_tokens |-> i, output_tokens |-> o] : i \in TokenCounts, o \in TokenCounts}

\* ------------------------------------------------------------------------
\* agent_bridge.py: main
\* ------------------------------------------------------------------------

\* Mutant of ProcessBlock: `>=` for `>` in the length tests.
ProcessBlock_EmitOnEqual(st, block, i) ==
    IF block.type = "text" THEN
        LET prev == Get(st.text_lens, i) IN
        IF Len(block.text) >= prev
        THEN [st EXCEPT !.emitted = @ \o <<ContentDelta(SliceFrom(block.text, prev), i)>>,
                        !.text_lens = Put(@, i, Len(block.text))]
        ELSE st
    ELSE IF block.type = "thinking" THEN
        LET prev == Get(st.think_lens, i) IN
        IF Len(block.text) >= prev
        THEN [st EXCEPT !.emitted = @ \o <<ReasoningDelta(SliceFrom(block.text, prev), i)>>,
                        !.think_lens = Put(@, i, Len(block.text))]
        ELSE st
    ELSE IF block.type = "tool_use" THEN
        IF i \notin st.seen_tools
        THEN [st EXCEPT !.seen_tools = @ \cup {i},
                        !.emitted = @ \o <<ToolCallDelta(block, i)>>]
        ELSE st
    ELSE st

\* One pass of the loop body over block i (0-based) of an assistant message.
\* st holds text_lens, think_lens, seen_tools and the lines emitted so far.
ProcessBlock(st, block, i) ==
    IF block.type = "text" THEN
        LET prev == Get(st.text_lens, i) IN
        IF Len(block.text) > prev
        THEN [st EXCEPT !.emitted = @ \o <<ContentDelta(SliceFrom(block.text, prev), i)>>,
                        !.text_lens = Put(@, i, Len(block.text))]
        ELSE st
    ELSE IF block.type = "thinking" THEN
        LET prev == Get(st.think_lens, i) IN
        IF Len(block.text) > prev
        THEN [st EXCEPT !.emitted = @ \o <<ReasoningDelta(SliceFrom(block.text, prev), i)>>,
                        !.think_lens = Put(@, i, Len(block.text))]
        ELSE st
    ELSE IF block.type = "tool_use" THEN
        IF i \notin st.seen_tools
        THEN [st EXCEPT !.seen_tools = @ \cup {i},
                        !.emitted = @ \o <<ToolCallDelta(block, i)>>]
        ELSE st
    ELSE st

RECURSIVE ProcessContent(_, _, _)
\* for i, block in enumerate(message.content), from block i on.
ProcessContent(st, content, i) ==
    IF i >= Len(content) THEN st
    ELSE ProcessContent(ProcessBlock(st, content[i + 1], i), content, i + 1)

\* Mutant of Tracking: seen_tools is cleared before every assistant message.
Tracking_ClearsToolsAlways ==
    IF was_assistant
    THEN [text_lens |-> text_lens, think_lens |-> think_lens, seen_tools |-> {},
          emitted |-> <<>>]
    ELSE [text_lens |-> EmptyDict, think_lens |-> EmptyDict, seen_tools |-> {},
          emitted |-> <<>>]

\* Mutant of Tracking: nothing is ever cleared.
Tracking_NeverClears ==
    [text_lens |-> text_lens, think_lens |-> think_lens, seen_tools |-> seen_tools,
     emitted |-> <<>>]

\* The tracking state an assistant message is diffed against: cleared when the
\* previous message was not an assistant message.
Tracking ==
    IF was_assistant
    THEN [text_lens |-> text_lens, think_lens |-> think_lens, seen_tools |-> seen_tools,
          emitted |-> <<>>]
    ELSE [text_lens |-> EmptyDict, think_lens |-> EmptyDict, seen_tools |-> {},
          emitted |-> <<>>]

\* model.split("/", 1)[1] if "/" in model else model
StripProvider(model) ==
    IF \E k \in 1..Len(model) : model[k] = "/"
    THEN LET first == CHOOSE k \in 1..Len(model) :
                          model[k] = "/" /\ \A j \in 1..(k - 1) : model[j] # "/"
         IN  SubSeq(model, first + 1, Len(model))
    ELSE model

\* ClaudeCodeOptions(system_prompt=system or None, model=model, ...)
Options(sys, model) ==
    [system_prompt_is_none |-> (sys = <<>>), system_prompt |-> sys, model |-> model]

NoOptions == Options(<<>>, <<>>)

\* json.load(sys.stdin) raises on input that is not JSON; nothing catches it.
Main_LoadFails ==
    /\ b_pc = "start"
    /\ ~stdin.is_json
    /\ b_pc' = "crashed"
    /\ stdin' = [stdin EXCEPT !.read = TRUE]
    /\ UNCHANGED <<system, prompt, options, text_lens, think_lens, seen_tools, was_assistant,
                   out, consumed, last_msg, prev_msg, turn_msgs, turn_start>>
    /\ UNCHANGED <<tool_vars, chat_vars>>

\* The payload has no prompt: one error delta, emit_done(), return.
Main_NoPrompt ==
    /\ b_pc = "start"
    /\ stdin.is_json
    /\ LET built == BuildPrompt(stdin.messages) IN
        /\ built.prompt = <<>>
        /\ system' = built.system
        /\ prompt' = built.prompt
    /\ out' = out \o <<ContentDelta(<<"Error: No user message">>, -1)>> \o EmitDone(0, 0)
    /\ b_pc' = "done"
    /\ stdin' = [stdin EXCEPT !.read = TRUE]
    /\ UNCHANGED <<options, text_lens, think_lens, seen_tools, was_assistant,
                   consumed, last_msg, prev_msg, turn_msgs, turn_start>>
    /\ UNCHANGED <<tool_vars, chat_vars>>

\* The payload has a prompt: build the options and start the query.
Main_StartQuery ==
    /\ b_pc = "start"
    /\ stdin.is_json
    /\ LET built == BuildPrompt(stdin.messages) IN
        /\ built.prompt # <<>>
        /\ system' = built.system
        /\ prompt' = built.prompt
        /\ options' = Options(built.system, StripProvider(stdin.model))
    /\ text_lens' = EmptyDict
    /\ think_lens' = EmptyDict
    /\ seen_tools' = {}
    /\ was_assistant' = FALSE
    /\ b_pc' = "streaming"
    /\ stdin' = [stdin EXCEPT !.read = TRUE]
    /\ UNCHANGED <<out, consumed, last_msg, prev_msg, turn_msgs, turn_start>>
    /\ UNCHANGED <<tool_vars, chat_vars>>

\* The stream yields an AssistantMessage.
OnAssistantMessage ==
    /\ b_pc = "streaming"
    /\ consumed < MaxMsgs
    /\ \E content \in AssistantContents :
        LET st == ProcessContent(Tracking, content, 0) IN
        /\ text_lens' = st.text_lens
        /\ think_lens' = st.think_lens
        /\ seen_tools' = st.seen_tools
        /\ out' = out \o st.emitted
        /\ last_msg' = AssistantMessage(content)
        /\ turn_msgs' = IF was_assistant THEN Append(turn_msgs, content) ELSE <<content>>
    /\ turn_start' = IF was_assistant THEN turn_start ELSE Len(out)
    /\ prev_msg' = last_msg
    /\ was_assistant' = TRUE
    /\ consumed' = consumed + 1
    /\ UNCHANGED <<stdin, b_pc, system, prompt, options>>
    /\ UNCHANGED <<tool_vars, chat_vars>>

\* The stream yields a message that is neither assistant nor result.
OnOtherMessage ==
    /\ b_pc = "streaming"
    /\ consumed < MaxMsgs
    /\ was_assistant' = FALSE
    /\ last_msg' = OtherMessage
    /\ prev_msg' = last_msg
    /\ turn_msgs' = <<>>
    /\ turn_start' = Len(out)
    /\ consumed' = consumed + 1
    /\ UNCHANGED <<stdin, b_pc, system, prompt, options, text_lens, think_lens, seen_tools, out>>
    /\ UNCHANGED <<tool_vars, chat_vars>>

\* The stream yields a ResultMessage: emit_done(inp, out) and return.
OnResultMessage ==
    /\ b_pc = "streaming"
    /\ consumed < MaxMsgs
    /\ \E usage \in Usages :
        LET inp == IF usage.present THEN usage.input_tokens ELSE 0
            outp == IF usage.present THEN usage.output_tokens ELSE 0
        IN  /\ out' = out \o EmitDone(inp, outp)
            /\ last_msg' = ResultMessage(usage)
            /\ turn_start' = Len(out')
    /\ prev_msg' = last_msg
    /\ turn_msgs' = <<>>
    /\ was_assistant' = FALSE
    /\ consumed' = consumed + 1
    /\ b_pc' = "done"
    /\ UNCHANGED <<stdin, system, prompt, options, text_lens, think_lens, seen_tools>>
    /\ UNCHANGED <<tool_vars, chat_vars>>

\* The stream raises: the error delta, then the emit_done() after the try.
OnException ==
    /\ b_pc = "streaming"
    /\ out' = out \o <<ContentDelta(<<"\nSDK Error: ", "e", "\n">>, -1)>> \o EmitDone(0, 0)
    /\ b_pc' = "done"
    /\ UNCHANGED <<stdin, system, prompt, options, text_lens, think_lens, seen_tools,
                   was_assistant, consumed, last_msg, prev_msg, turn_msgs, turn_start>>
    /\ UNCHANGED <<tool_vars, chat_vars>>

\* The stream ends with no ResultMessage: the emit_done() after the try.
OnStreamEnd ==
    /\ b_pc = "streaming"
    /\ out' = out \o EmitDone(0, 0)
    /\ b_pc' = "done"
    /\ UNCHANGED <<stdin, system, prompt, options, text_lens, think_lens, seen_tools,
                   was_assistant, consumed, last_msg, prev_msg, turn_msgs, turn_start>>
    /\ UNCHANGED <<tool_vars, chat_vars>>


\* ------------------------------------------------------------------------
\* agent.py: run_tool
\* ------------------------------------------------------------------------

\* timeout=60 of subprocess.run
ToolTimeout == 60

\* proc.stderr[:500]
StderrLimit == 500

\* lines[1][:500]
RawLimit == 500

\* text[:limit]
Truncate(text, limit) == SubSeq(text, 1, IF Len(text) < limit THEN Len(text) ELSE limit)

\* What run_tool hands back: a string it returns, or an exception it lets out.
\* A returned string is either json.dumps(value) or plain text.
Returned(form, value) == [raised |-> FALSE, exc |-> "", form |-> form, value |-> value]

Raised(exc) == [raised |-> TRUE, exc |-> exc, form |-> "", value |-> <<>>]

JsonDumps(value) == Returned("json", value)

\* One line of the subprocess's standard output: blank (empty, or white space
\* only) or not, and what json.loads makes of it.
BlankLine == [blank |-> TRUE, doc |-> [type |-> "blank"], raw |-> <<>>]

Line(doc, raw) == [blank |-> FALSE, doc |-> doc, raw |-> raw]

\* Mutant of NonBlankLines: the blank lines are kept.
NonBlankLines_KeepsBlank(stdout) == stdout

\* [l for l in proc.stdout.strip().split("\n") if l.strip()]
NonBlankLines(stdout) ==
    LET NotBlank(l) == ~l.blank IN SelectSeq(stdout, NotBlank)

RECURSIVE TextsOf(_)
\* [item.get("text", "") for item in content if item.get("type") == "text"]
TextsOf(items) ==
    IF items = <<>> THEN <<>>
    ELSE (IF Head(items).type = "text"
          THEN <<IF Head(items).has_text THEN Head(items).text ELSE <<>>>>
          ELSE <<>>) \o TextsOf(Tail(items))

\* The lines after `content = result.get("content", [])`, for a dict result.
ExtractText(result) ==
    LET content == result.content IN
    IF content.kind = "missing" THEN JsonDumps(result)
    \* iterating None
    ELSE IF content.kind = "null" THEN Raised("TypeError")
    \* item.get on the characters of a string, or the keys of a dict
    ELSE IF content.kind = "nonlist" THEN Raised("AttributeError")
    ELSE
        \* item.get on an item that is no dict
        IF \E k \in 1..Len(content.items) : ~content.items[k].is_dict
        THEN Raised("AttributeError")
        ELSE LET texts == TextsOf(content.items) IN
             IF texts = <<>> THEN JsonDumps(result)
             \* "\n".join over a text that is no string
             ELSE IF \E k \in 1..Len(content.items) :
                        /\ content.items[k].type = "text"
                        /\ content.items[k].has_text
                        /\ ~content.items[k].text_is_str
             THEN Raised("TypeError")
             ELSE Returned("text", Join(texts, <<"\n">>))

\* The lines after `resp = json.loads(lines[1])` succeeded.
HandleResponse(resp) ==
    IF resp.type # "object"
    \* "error" in resp, resp["error"] or resp.get on a value that is no dict
    THEN Raised(IF resp.type \in {"null", "number"} THEN "TypeError" ELSE "AttributeError")
    ELSE IF resp.has_error THEN JsonDumps(resp.error)
    ELSE IF resp.result.kind = "missing"
         THEN JsonDumps([kind |-> "dict", content |-> [kind |-> "missing", items |-> <<>>]])
    ELSE IF resp.result.kind \in {"null", "nondict"} THEN Raised("AttributeError")
    ELSE ExtractText(resp.result)

\* The lines after subprocess.run returned.
HandleOutput(proc) ==
    LET lines == NonBlankLines(proc.stdout) IN
    IF Len(lines) < 2
    THEN JsonDumps([error |-> "No response from dashmcp",
                    stderr |-> Truncate(proc.stderr, StderrLimit)])
    ELSE IF lines[2].doc.type = "not_json"
    THEN JsonDumps([error |-> "Invalid JSON from dashmcp",
                    raw |-> Truncate(lines[2].raw, RawLimit)])
    ELSE HandleResponse(lines[2].doc)

\* run_tool(name, args), the subprocess doing `proc`.
RunTool(name, args, proc) ==
    \* subprocess.run could not start DASHMCP
    IF ~proc.spawned THEN Raised("OSError")
    \* subprocess.TimeoutExpired
    ELSE IF proc.seconds > ToolTimeout
    THEN JsonDumps([error |-> "Tool call timed out after 60s"])
    ELSE HandleOutput(proc)

\* The payloads on standard input: text that is not JSON, or a payload object.
NotJson == [is_json |-> FALSE, read |-> FALSE, model |-> <<>>, messages |-> <<>>]

Payload(model, msgs) ==
    [is_json |-> TRUE, read |-> FALSE, model |-> model, messages |-> msgs]

\* One list whose prompt is queried, the others end with the error delta
\* (every payload of bounded length is drawn by PromptInputs below).
BridgeMessageLists ==
    { <<>>,
      <<Msg("system", <<"s">>)>>,
      <<Msg("user", <<>>)>>,
      <<Msg("assistant", <<>>)>>,
      <<Msg("system", <<"s">>), Msg("user", <<"a">>)>> }

BridgeInputs ==
    {NotJson} \cup {Payload(<<"acme", "/", "claude-x">>, ms) : ms \in BridgeMessageLists}

\* ------------------------------------------------------------------------
\* agent_bridge.py: every payload of bounded length
\* ------------------------------------------------------------------------

\* role: the three the code tells apart, and one it does not ("tool").
Roles == {"system", "user", "assistant", "tool"}

\* content: the empty (or missing) content, and three texts.
Contents == {<<>>, <<"a">>, <<"b">>, <<"c">>}

PayloadMsgs == {Msg(r, c) : r \in Roles, c \in Contents}

RECURSIVE SeqsUpTo(_, _)
\* The sequences over S of length at most n.
SeqsUpTo(S, n) ==
    IF n = 0 THEN {<<>>}
    ELSE LET shorter == SeqsUpTo(S, n - 1) IN
         shorter \cup {Append(q, x) : q \in {r \in shorter : Len(r) = n - 1}, x \in S}

PromptInputs ==
    {NotJson} \cup {Payload(<<"claude-x">>, ms) : ms \in SeqsUpTo(PayloadMsgs, MaxPromptMsgs)}

\* ------------------------------------------------------------------------
\* agent.py: what the tool subprocess can do in one call of run_tool
\* ------------------------------------------------------------------------

\* The items of a result's content list.
TextItem(text) ==
    [is_dict |-> TRUE, type |-> "text", has_text |-> TRUE, text_is_str |-> TRUE, text |-> text]

\* {"type": "text"} with no text key
TextItemNoText ==
    [is_dict |-> TRUE, type |-> "text", has_text |-> FALSE, text_is_str |-> TRUE, text |-> <<>>]

\* {"type": "text", "text": null}
TextItemNullText ==
    [is_dict |-> TRUE, type |-> "text", has_text |-> TRUE, text_is_str |-> FALSE, text |-> <<>>]

\* {"type": "image", ...}
ImageItem ==
    [is_dict |-> TRUE, type |-> "image", has_text |-> FALSE, text_is_str |-> TRUE, text |-> <<>>]

\* an item that is no object
NonDictItem ==
    [is_dict |-> FALSE, type |-> "", has_text |-> FALSE, text_is_str |-> TRUE, text |-> <<>>]

Items == {TextItem(<<"x">>), TextItemNoText, TextItemNullText, ImageItem, NonDictItem}

ContentShapes ==
    {[kind |-> k, items |-> <<>>] : k \in {"missing", "null", "nonlist"}}
        \cup {[kind |-> "list", items |-> is] :
                is \in {<<>>} \cup {<<a>> : a \in Items} \cup {<<a, b>> : a \in Items, b \in Items}}

NoContent == [kind |-> "missing", items |-> <<>>]

ResultShapes ==
    {[kind |-> k, content |-> NoContent] : k \in {"missing", "null", "nondict"}}
        \cup {[kind |-> "dict", content |-> c] : c \in ContentShapes}

NoResultKey == [kind |-> "missing", content |-> NoContent]

\* What json.loads makes of the response line.
Doc(type, has_error, result) ==
    [type |-> type, has_error |-> has_error,
     error |-> IF has_error THEN [code |-> -32601, message |-> "Method not found"]
               ELSE [code |-> 0, message |-> ""],
     result |-> result]

Docs ==
    {Doc(t, FALSE, NoResultKey) : t \in {"not_json", "null", "number", "string", "array"}}
        \cup {Doc("object", TRUE, r) : r \in {NoResultKey, [kind |-> "dict", content |-> NoContent]}}
        \cup {Doc("object", FALSE, r) : r \in ResultShapes}

\* The answer to `initialize`, and a line after the answer to `tools/call`.
InitReply == Line(Doc("object", FALSE, [kind |-> "dict", content |-> NoContent]), <<"init">>)

LaterLine == Line(Doc("not_json", FALSE, NoResultKey), <<"log">>)

RECURSIVE StdoutOf(_, _, _)
\* Standard output with the blank lines where `layout` has them; of the other
\* lines the first answers `initialize`, the second is `doc`.
StdoutOf(layout, doc, k) ==
    IF layout = <<>> THEN <<>>
    ELSE IF Head(layout) = "blank" THEN <<BlankLine>> \o StdoutOf(Tail(layout), doc, k)
    ELSE <<IF k = 1 THEN InitReply ELSE IF k = 2 THEN Line(doc, <<"raw">>) ELSE LaterLine>>
            \o StdoutOf(Tail(layout), doc, k + 1)

\* What the subprocess does: whether it starts, how long it runs, what it writes.
Procs ==
    {[spawned |-> sp, seconds |-> sec, stdout |-> StdoutOf(layout, doc, 1), stderr |-> err] :
        sp \in BOOLEAN, sec \in {1, ToolTimeout + 1},
        layout \in SeqsUpTo({"blank", "line"}, MaxLines), doc \in Docs,
        err \in {<<>>, <<"boom">>}}

ToolNames == {"working_set", "exec"}

NoToolResult == Returned("", <<>>)

\* run_tool returns a string.
RunTool_Returns ==
    /\ t_pc = "called"
    /\ LET r == RunTool(t_name, t_args, t_proc) IN
        /\ ~r.raised
        /\ t_result' = r
    /\ t_pc' = "returned"
    /\ UNCHANGED <<t_name, t_args, t_proc, bridge_vars, chat_vars>>

\* run_tool lets an exception out.
RunTool_Raises ==
    /\ t_pc = "called"
    /\ LET r == RunTool(t_name, t_args, t_proc) IN
        /\ r.raised
        /\ t_result' = r
    /\ t_pc' = "raised"
    /\ UNCHANGED <<t_name, t_args, t_proc, bridge_vars, chat_vars>>

\* ------------------------------------------------------------------------
\* agent.py: chat
\* ------------------------------------------------------------------------

\* str.lower(), on the letters the input lines use.
Lower(ch) ==
    CASE ch = "Q" -> "q" [] ch = "U" -> "u" [] ch = "I" -> "i" [] ch = "T" -> "t"
      [] ch = "E" -> "e" [] ch = "X" -> "x" [] OTHER -> ch

LowerAll(line) == [k \in 1..Len(line) |-> Lower(line[k])]

RECURSIVE Strip(_)
\* str.strip()
Strip(line) ==
    IF line = <<>> THEN <<>>
    ELSE IF Head(line) = " " THEN Strip(Tail(line))
    ELSE IF line[Len(line)] = " " THEN Strip(SubSeq(line, 1, Len(line) - 1))
    ELSE line

\* ("quit", "exit", "q")
QuitWords == {<<"q", "u", "i", "t">>, <<"e", "x", "i", "t">>, <<"q">>}

\* user_input.strip().lower() in ("quit", "exit", "q")
IsQuit(line) == LowerAll(Strip(line)) \in QuitWords

\* not user_input.strip()
IsBlank(line) == Strip(line) = <<>>

\* The content blocks of an API response.
TextPart(text) == [type |-> "text", text |-> text, id |-> "", name |-> ""]

ToolCall(id, name) == [type |-> "tool_use", text |-> <<>>, id |-> id, name |-> name]

\* Mutant of ToolResult: every result is keyed by the first block's identifier.
ToolResult_FixedId(id, result) ==
    [type |-> "tool_result", tool_use_id |-> "toolu_1", content |-> result]

\* {"type": "tool_result", "tool_use_id": block.id, "content": result}
ToolResult(id, result) == [type |-> "tool_result", tool_use_id |-> id, content |-> result]

\* {"role": "user", "content": user_input}
UserTurn(line) == [role |-> "user", content |-> <<[type |-> "string", text |-> line]>>]

\* {"role": "assistant", "content": response.content}
AssistantTurn(content) == [role |-> "assistant", content |-> content]

\* {"role": "user", "content": tool_results}
ToolResultsTurn(results) == [role |-> "user", content |-> results]

NoResponse == [stop_reason |-> "", content |-> <<>>]

\* [b for b in response.content if b.type == "tool_use"]
ToolBlocksOf(content) ==
    LET IsToolUse(b) == b.type = "tool_use" IN SelectSeq(content, IsToolUse)

\* [b.text for b in response.content if hasattr(b, "text")]
TextPartsOf(content) ==
    LET HasText(b) == b.type = "text" IN SelectSeq(content, HasText)

\* Mutant of FinishTurn: the response is appended whether it has text or not.
FinishTurn_AlwaysAppends(msgs, resp) == Append(msgs, AssistantTurn(resp.content))

\* The lines under "# Print text response": the history after them.
FinishTurn(msgs, resp) ==
    IF TextPartsOf(resp.content) # <<>>
    THEN Append(msgs, AssistantTurn(resp.content))
    ELSE msgs

\* The template of load_system_prompt around the working set.
SystemPrompt(ws) == [template |-> "Du är dash-agenten ...", ws |-> ws]

NoSystemPrompt == SystemPrompt(NoToolResult)

\* The lines a user types.
UserLines ==
    {<<"q", "u", "i", "t">>, <<" ", "Q", " ">>, <<"E", "x", "i", "t">>, <<>>, <<" ">>,
     <<"h", "i">>}

\* response.content of the API responses: nothing; text; one tool call; text
\* and two tool calls.
ResponseContents ==
    {<<>>,
     <<TextPart(<<"t">>)>>,
     <<ToolCall("toolu_1", "exec")>>,
     <<TextPart(<<"t">>), ToolCall("toolu_1", "exec"), ToolCall("toolu_2", "read")>>}

\* stop_reason is "tool_use" or another one.
Responses ==
    {[stop_reason |-> sr, content |-> c] : sr \in {"tool_use", "end_turn"}, c \in ResponseContents}

\* What the tool subprocess does in a call made by the chat loop: it answers
\* with a text; it runs into the timeout; it answers with a JSON array.
ChatProcs ==
    {[spawned |-> TRUE, seconds |-> 1, stderr |-> <<>>,
      stdout |-> <<InitReply,
                   Line(Doc("object", FALSE,
                            [kind |-> "dict",
                             content |-> [kind |-> "list", items |-> <<TextItem(<<"x">>)>>]]),
                        <<"raw">>)>>],
     [spawned |-> TRUE, seconds |-> ToolTimeout + 1, stderr |-> <<>>, stdout |-> <<>>],
     [spawned |-> TRUE, seconds |-> 1, stderr |-> <<>>,
      stdout |-> <<InitReply, Line(Doc("array", FALSE, NoResultKey), <<"raw">>)>>]}

\* chat() up to the first prompt: load_system_prompt calls run_tool, whose
\* exception nothing catches.
LoadSystemPrompt ==
    /\ c_pc = "init"
    /\ \E proc \in ChatProcs :
        LET ws == RunTool("working_set", "{}", proc) IN
        IF ws.raised
        THEN /\ c_pc' = "crashed"
             /\ c_system' = c_system
        ELSE /\ c_pc' = "input"
             /\ c_system' = SystemPrompt(ws)
    /\ UNCHANGED <<messages, response, tool_results, tool_k, farewell, api_calls,
                   line_calls, hist_at_prompt, last_call, hist_at_call, bridge_vars, tool_vars>>

\* input() raises EOFError or KeyboardInterrupt: farewell, break.
ReadInterrupted ==
    /\ c_pc = "input"
    /\ farewell' = TRUE
    /\ c_pc' = "exited"
    /\ UNCHANGED <<c_system, messages, response, tool_results, tool_k, api_calls,
                   line_calls, hist_at_prompt, last_call, hist_at_call, bridge_vars, tool_vars>>

\* A quit word: farewell, break.
ReadQuit ==
    /\ c_pc = "input"
    /\ \E line \in UserLines : IsQuit(line)
    /\ farewell' = TRUE
    /\ c_pc' = "exited"
    /\ UNCHANGED <<c_system, messages, response, tool_results, tool_k, api_calls,
                   line_calls, hist_at_prompt, last_call, hist_at_call, bridge_vars, tool_vars>>

\* A blank line: continue.
ReadBlank ==
    /\ c_pc = "input"
    /\ \E line \in UserLines : ~IsQuit(line) /\ IsBlank(line)
    /\ UNCHANGED <<chat_vars, bridge_vars, tool_vars>>

\* Any other line is appended as a user turn, and the API is called.
ReadText ==
    /\ c_pc = "input"
    /\ api_calls < MaxApiCalls
    /\ \E line \in UserLines :
        /\ ~IsQuit(line)
        /\ ~IsBlank(line)
        /\ messages' = Append(messages, UserTurn(line))
    /\ hist_at_prompt' = messages
    /\ line_calls' = 0
    /\ last_call' = "none"
    /\ c_pc' = "api_first"
    /\ UNCHANGED <<c_system, response, tool_results, tool_k, farewell, api_calls,
                   hist_at_call, bridge_vars, tool_vars>>

\* The state after client.messages.create returned `resp`: the head of the
\* while loop, the assistant turn of a tool-use response, and, when the
\* response has no tool block, the (empty) tool-result turn.
TakeResponse(resp) ==
    /\ response' = resp
    /\ hist_at_call' = messages
    /\ api_calls' = api_calls + 1
    /\ line_calls' = line_calls + 1
    /\ tool_results' = <<>>
    /\ tool_k' = 1
    /\ last_call' = IF resp.stop_reason = "tool_use" THEN "tool_use" ELSE "ok"
    /\ IF resp.stop_reason = "tool_use"
       THEN IF ToolBlocksOf(resp.content) = <<>>
            THEN /\ messages' = Append(Append(messages, AssistantTurn(resp.content)),
                                       ToolResultsTurn(<<>>))
                 /\ c_pc' = "api_again"
            ELSE /\ messages' = Append(messages, AssistantTurn(resp.content))
                 /\ c_pc' = "tool_exec"
       ELSE /\ messages' = FinishTurn(messages, resp)
            /\ c_pc' = "input"

\* A tool-use response is followed by another call: it is drawn only while
\* one more call fits the bound.
Fits(resp) == resp.stop_reason = "tool_use" => api_calls + 1 < MaxApiCalls

\* The first call for a user line returns.
ApiFirst_Responds ==
    /\ c_pc = "api_first"
    /\ \E resp \in Responses : Fits(resp) /\ TakeResponse(resp)
    /\ UNCHANGED <<c_system, farewell, hist_at_prompt, bridge_vars, tool_vars>>

\* Mutant of ApiFirst_Fails: the user turn is not popped.
ApiFirst_Fails_NoPop ==
    /\ c_pc = "api_first"
    /\ api_calls' = api_calls + 1
    /\ line_calls' = line_calls + 1
    /\ last_call' = "failed_first"
    /\ hist_at_call' = messages
    /\ c_pc' = "input"
    /\ UNCHANGED <<c_system, messages, response, tool_results, tool_k, farewell,
                   hist_at_prompt, bridge_vars, tool_vars>>

\* The first call for a user line raises anthropic.APIError: pop, continue.
ApiFirst_Fails ==
    /\ c_pc = "api_first"
    /\ messages' = SubSeq(messages, 1, Len(messages) - 1)
    /\ api_calls' = api_calls + 1
    /\ line_calls' = line_calls + 1
    /\ last_call' = "failed_first"
    /\ hist_at_call' = messages
    /\ c_pc' = "input"
    /\ UNCHANGED <<c_system, response, tool_results, tool_k, farewell, hist_at_prompt,
                   bridge_vars, tool_vars>>

\* One pass of `for block in tool_blocks`: run_tool, whose exception nothing
\* catches; after the last block the tool-result turn is appended.
ToolExec ==
    /\ c_pc = "tool_exec"
    /\ \E proc \in ChatProcs :
        LET blocks == ToolBlocksOf(response.content)
            block == blocks[tool_k]
            result == RunTool(block.name, "{}", proc)
            results == Append(tool_results, ToolResult(block.id, result))
        IN  IF result.raised
            THEN /\ c_pc' = "crashed"
                 /\ UNCHANGED <<messages, tool_results, tool_k>>
            ELSE /\ tool_results' = results
                 /\ IF tool_k = Len(blocks)
                    THEN /\ messages' = Append(messages, ToolResultsTurn(results))
                         /\ c_pc' = "api_again"
                         /\ tool_k' = tool_k
                    ELSE /\ messages' = messages
                         /\ c_pc' = "tool_exec"
                         /\ tool_k' = tool_k + 1
    /\ UNCHANGED <<c_system, response, farewell, api_calls, line_calls, hist_at_prompt,
                   last_call, hist_at_call, bridge_vars, tool_vars>>

\* The call re-issued in the tool loop returns.
ApiAgain_Responds ==
    /\ c_pc = "api_again"
    /\ \E resp \in Responses : Fits(resp) /\ TakeResponse(resp)
    /\ UNCHANGED <<c_system, farewell, hist_at_prompt, bridge_vars, tool_vars>>

\* Mutant of ApiAgain_Fails: the history is rolled back to the prompt.
ApiAgain_Fails_RollsBack ==
    /\ c_pc = "api_again"
    /\ messages' = hist_at_prompt
    /\ api_calls' = api_calls + 1
    /\ line_calls' = line_calls + 1
    /\ last_call' = "failed_again"
    /\ hist_at_call' = messages
    /\ c_pc' = "input"
    /\ UNCHANGED <<c_system, response, tool_results, tool_k, farewell, hist_at_prompt,
                   bridge_vars, tool_vars>>

\* The call re-issued in the tool loop raises anthropic.APIError: break, and
\* the lines under "# Print text response" run on the response at hand.
ApiAgain_Fails ==
    /\ c_pc = "api_again"
    /\ messages' = FinishTurn(messages, response)
    /\ api_calls' = api_calls + 1
    /\ line_calls' = line_calls + 1
    /\ last_call' = "failed_again"
    /\ hist_at_call' = messages
    /\ c_pc' = "input"
    /\ UNCHANGED <<c_system, response, tool_results, tool_k, farewell, hist_at_prompt,
                   bridge_vars, tool_vars>>

\* KeyboardInterrupt in load_system_prompt, before the loop: no handler is in
\* reach; the process dies with a traceback.
InterruptedInInit ==
    /\ c_pc = "init"
    /\ c_pc' = "crashed"
    /\ UNCHANGED <<c_system, messages, response, tool_results, tool_k, farewell,
                   api_calls, line_calls, hist_at_prompt, last_call, hist_at_call, bridge_vars, tool_vars>>

\* KeyboardInterrupt in the loop outside input(): in an API call or in
\* run_tool.  No handler is in reach; the process dies with a traceback.
InterruptedInCall ==
    /\ c_pc \in {"api_first", "api_again", "tool_exec"}
    /\ c_pc' = "interrupted"
    /\ UNCHANGED <<c_system, messages, response, tool_results, tool_k, farewell,
                   api_calls, line_calls, hist_at_prompt, last_call, hist_at_call, bridge_vars, tool_vars>>

\* ========================================================================
\* Specifications
\* ========================================================================

\* main about to read standard input.
BridgeStart ==
    /\ b_pc = "start"
    /\ system = <<>>
    /\ prompt = <<>>
    /\ options = NoOptions
    /\ text_lens = EmptyDict
    /\ think_lens = EmptyDict
    /\ seen_tools = {}
    /\ was_assistant = FALSE
    /\ out = <<>>
    /\ consumed = 0
    /\ last_msg = NoMessage
    /\ prev_msg = NoMessage
    /\ turn_msgs = <<>>
    /\ turn_start = 0

\* The bridge is not run.
BridgeIdle ==
    /\ stdin = NotJson
    /\ b_pc = "off"
    /\ system = <<>>
    /\ prompt = <<>>
    /\ options = NoOptions
    /\ text_lens = EmptyDict
    /\ think_lens = EmptyDict
    /\ seen_tools = {}
    /\ was_assistant = FALSE
    /\ out = <<>>
    /\ consumed = 0
    /\ last_msg = NoMessage
    /\ prev_msg = NoMessage
    /\ turn_msgs = <<>>
    /\ turn_start = 0

ToolIdle ==
    /\ t_name = ""
    /\ t_args = "{}"
    /\ t_proc = [spawned |-> FALSE, seconds |-> 0, stdout |-> <<>>, stderr |-> <<>>]
    /\ t_pc = "off"
    /\ t_result = NoToolResult

\* The chat loop is not run.
ChatIdle ==
    /\ c_pc = "off"
    /\ c_system = NoSystemPrompt
    /\ messages = <<>>
    /\ response = NoResponse
    /\ tool_results = <<>>
    /\ tool_k = 1
    /\ farewell = FALSE
    /\ api_calls = 0
    /\ line_calls = 0
    /\ hist_at_prompt = <<>>
    /\ last_call = "none"
    /\ hist_at_call = <<>>

\* The bridge on a few payloads, against every SDK stream of bounded length.
BridgeInit ==
    /\ stdin \in BridgeInputs
    /\ BridgeStart
    /\ ToolIdle
    /\ ChatIdle

BridgeNext ==
    \/ Main_LoadFails
    \/ Main_NoPrompt
    \/ Main_StartQuery
    \/ OnAssistantMessage
    \/ OnOtherMessage
    \/ OnResultMessage
    \/ OnException
    \/ OnStreamEnd

SpecBridge == BridgeInit /\ [][BridgeNext]_vars

\* The bridge on every payload of bounded length, against an SDK stream that
\* yields no message: it ends, or raises, at once.
PromptInit ==
    /\ stdin \in PromptInputs
    /\ BridgeStart
    /\ ToolIdle
    /\ ChatIdle

PromptNext ==
    \/ Main_LoadFails
    \/ Main_NoPrompt
    \/ Main_StartQuery
    \/ OnException
    \/ OnStreamEnd

SpecPrompt == PromptInit /\ [][PromptNext]_vars

\* One call of run_tool, over the things the subprocess can do.
ToolInit ==
    /\ t_name \in ToolNames
    /\ t_args \in {"{}", "{\"command\": \"ls\"}"}
    /\ t_proc \in Procs
    /\ t_pc = "called"
    /\ t_result = NoToolResult
    /\ BridgeIdle
    /\ ChatIdle

ToolNext == RunTool_Returns \/ RunTool_Raises

SpecTool == ToolInit /\ [][ToolNext]_vars

\* The chat loop from its start, over user lines, API responses and tool
\* subprocess outcomes.
ChatInit ==
    /\ c_pc = "init"
    /\ c_system = NoSystemPrompt
    /\ messages = <<>>
    /\ response = NoResponse
    /\ tool_results = <<>>
    /\ tool_k = 1
    /\ farewell = FALSE
    /\ api_calls = 0
    /\ line_calls = 0
    /\ hist_at_prompt = <<>>
    /\ last_call = "none"
    /\ hist_at_call = <<>>
    /\ BridgeIdle
    /\ ToolIdle

ChatNext ==
    \/ LoadSystemPrompt
    \/ ReadInterrupted
    \/ ReadQuit
    \/ ReadBlank
    \/ ReadText
    \/ ApiFirst_Responds
    \/ ApiFirst_Fails
    \/ ToolExec
    \/ ApiAgain_Responds
    \/ ApiAgain_Fails
    \/ InterruptedInInit
    \/ InterruptedInCall

SpecChat == ChatInit /\ [][ChatNext]_vars

\* ========================================================================
\* Claims about agent_bridge.py (checked under SpecBridge)
\* ========================================================================

Last(seq) == seq[Len(seq)]

\* The lines the step under way adds to standard output.
NewLines == SubSeq(out', Len(out) + 1, Len(out'))

NoUserMessageDelta == ContentDelta(<<"Error: No user message">>, -1)

\* C1: whatever the SDK stream does (a ResultMessage, an exception, an end
\* with no ResultMessage), a run that started its query never dies, and when
\* main has returned the last line of standard output is the sentinel, which
\* is written once and only then.
C1_EndsWithSentinel ==
    /\ b_pc = "done" =>
          /\ out # <<>>
          /\ Last(out) = Sentinel
          /\ \A k \in 1..(Len(out) - 1) : out[k] # Sentinel
    /\ b_pc = "streaming" => \A k \in 1..Len(out) : out[k] # Sentinel
    /\ prompt # <<>> => b_pc \in {"streaming", "done"}

\* C1 witness: the stream raised after assistant messages had written deltas.
C1_Witness ==
    /\ b_pc = "done"
    /\ last_msg.type = "assistant"
    /\ Len(out) >= 3
    /\ out[Len(out) - 1].kind = "content"
    /\ out[Len(out) - 1].text = <<"\nSDK Error: ", "e", "\n">>

\* The payload carries no user content: no user message with content.
NoUserContent(msgs) ==
    \A k \in 1..Len(msgs) : ~(msgs[k].role = "user" /\ msgs[k].content # <<>>)

\* The payload yields no turn, or a single turn that is a user message with
\* empty content.
NoTurnOrEmptySoleUserTurn(msgs) ==
    LET IsTurn(m) == m.role = "user" \/ (m.role = "assistant" /\ m.content # <<>>)
        turns == SelectSeq(msgs, IsTurn)
    IN  \/ turns = <<>>
        \/ Len(turns) = 1 /\ turns[1].role = "user" /\ turns[1].content = <<>>

\* What C5 promises: one error delta, the sentinel, no query.
ErrorAndStop ==
    /\ b_pc = "done"
    /\ out = <<NoUserMessageDelta, Sentinel>>
    /\ prompt = <<>>
    /\ options = NoOptions
    /\ consumed = 0

\* C5 as stated: when the input is malformed or carries no user content, the
\* bridge writes exactly one error content delta, then the sentinel, and
\* issues no SDK query.
C5_AsStated ==
    (stdin.read /\ (~stdin.is_json \/ NoUserContent(stdin.messages))) => ErrorAndStop

\* C5 as amended: when the input is JSON whose messages yield no turn, or a
\* single turn that is a user message with empty content, the bridge writes
\* exactly one error content delta, then the sentinel, and issues no SDK query.
C5_EmptyPromptIsReported ==
    (stdin.read /\ stdin.is_json /\ NoTurnOrEmptySoleUserTurn(stdin.messages))
        => ErrorAndStop

\* C5 witness: a payload whose only message is a user message with empty
\* content has been answered.
C5_Witness ==
    /\ stdin.read
    /\ stdin.is_json
    /\ stdin.messages = <<Msg("user", <<>>)>>
    /\ out = <<NoUserMessageDelta, Sentinel>>

\* C6: on the first ResultMessage the bridge writes a usage line carrying the
\* two token counts if and only if one of them is non-zero, then the sentinel,
\* and stops: after it no message is consumed and no line is written.
C6_ResultEndsTheRun ==
    /\ [](last_msg.type = "result" =>
            LET u == last_msg.usage
                inp == IF u.present THEN u.input_tokens ELSE 0
                outp == IF u.present THEN u.output_tokens ELSE 0
                usage_lines == {k \in 1..Len(out) : out[k].kind = "usage"}
            IN  /\ b_pc = "done"
                /\ Last(out) = Sentinel
                /\ (inp # 0 \/ outp # 0) =>
                      /\ usage_lines = {Len(out) - 1}
                      /\ out[Len(out) - 1] = UsageEvent(inp, outp)
                /\ (inp = 0 /\ outp = 0) => usage_lines = {})
    /\ [][last_msg.type = "result" => (out' = out /\ consumed' = consumed)]_vars
    /\ [][last_msg'.type = "result" /\ last_msg.type # "result"
            => /\ consumed' = consumed + 1
               /\ \A k \in 1..Len(out) : out[k] # Sentinel
               /\ SubSeq(out', 1, Len(out)) = out]_vars

\* C6 witness: a ResultMessage with one zero and one non-zero count ended a
\* run that had written deltas.
C6_Witness ==
    /\ last_msg.type = "result"
    /\ last_msg.usage = [present |-> TRUE, input_tokens |-> 7, output_tokens |-> 0]
    /\ prev_msg.type = "assistant"
    /\ Len(out) >= 3

\* Block i (0-based) of both messages is a block of this type with the same text.
SameTextAt(m1, m2, i, type) ==
    /\ i < Len(m1.content)
    /\ i < Len(m2.content)
    /\ m1.content[i + 1].type = type
    /\ m2.content[i + 1].type = type
    /\ m1.content[i + 1].text = m2.content[i + 1].text

\* C7: when two consecutive assistant messages deliver the same full text at
\* the same block index, the second delivery writes no line for that block and
\* leaves the tracked length unchanged (for text, and for reasoning).
C7_RedeliveryIsSilent ==
    [][(last_msg.type = "assistant" /\ last_msg'.type = "assistant"
            /\ consumed' = consumed + 1)
        => \A i \in 0..1 :
            /\ SameTextAt(last_msg, last_msg', i, "text") =>
                  /\ \A k \in 1..Len(NewLines) :
                        ~(NewLines[k].kind = "content" /\ NewLines[k].blk = i)
                  /\ Get(text_lens', i) = Get(text_lens, i)
                  /\ Get(text_lens, i) >= Len(last_msg.content[i + 1].text)
            /\ SameTextAt(last_msg, last_msg', i, "thinking") =>
                  /\ \A k \in 1..Len(NewLines) :
                        ~(NewLines[k].kind = "reasoning" /\ NewLines[k].blk = i)
                  /\ Get(think_lens', i) = Get(think_lens, i)]_vars

\* C7 witness: the same text was delivered twice in a row at index 0 and one
\* delta was written for it.
C7_Witness ==
    /\ consumed = 2
    /\ prev_msg = AssistantMessage(<<TextBlock(<<"a", "b">>)>>)
    /\ last_msg = prev_msg
    /\ out = <<ContentDelta(<<"a", "b">>, 0)>>
    /\ Get(text_lens, 0) = 2

\* ------------------------------------------------------------------------
\* Claims about build_prompt and its caller (checked under SpecPrompt)
\* ------------------------------------------------------------------------

\* The messages that make a turn: every user message, and every assistant
\* message with content.
MakesTurn(m) == m.role = "user" \/ (m.role = "assistant" /\ m.content # <<>>)

TurnMsgs(msgs) == SelectSeq(msgs, MakesTurn)

RoleLabel(role) == IF role = "user" THEN "User" ELSE "Assistant"

\* The content of the last system message, empty when there is none.
LastSystemContent(msgs) ==
    LET at == {k \in 1..Len(msgs) : msgs[k].role = "system"} IN
    IF at = {} THEN <<>>
    ELSE msgs[CHOOSE k \in at : \A j \in at : j <= k].content

RECURSIVE HistoryBlock(_, _)
\* The 'Role: content' lines of turns k.., each two line breaks from the next.
HistoryBlock(turns, k) ==
    IF k > Len(turns) THEN <<>>
    ELSE <<RoleLabel(turns[k].role), ": ">> \o turns[k].content
            \o (IF k < Len(turns) THEN <<"\n\n">> ELSE <<>>)
            \o HistoryBlock(turns, k + 1)

\* C8: for a message list whose turn history has more than one turn and ends
\* with a user turn, build_prompt returns the content of the last system
\* message (empty if none) as system prompt, and as prompt a history block
\* with one 'Role: content' line per turn but the last, in input order,
\* followed by the content of the final user turn.
C8_MultiTurnPrompt ==
    LET turns == TurnMsgs(stdin.messages)
        n == Len(turns)
    IN  (stdin.read /\ stdin.is_json /\ n > 1 /\ turns[n].role = "user") =>
            /\ system = LastSystemContent(stdin.messages)
            /\ prompt = <<"<conversation_history>\n">>
                            \o HistoryBlock(SubSeq(turns, 1, n - 1), 1)
                            \o <<"\n</conversation_history>\n\n">>
                            \o turns[n].content

\* C8 witness: [user a, assistant b, user c], of the spec's example.
C8_Witness ==
    /\ stdin.read
    /\ stdin.messages = <<Msg("user", <<"a">>), Msg("assistant", <<"b">>), Msg("user", <<"c">>)>>
    /\ system = <<>>
    /\ prompt = <<"<conversation_history>\n", "User", ": ", "a", "\n\n",
                  "Assistant", ": ", "b", "\n</conversation_history>\n\n", "c">>

\* C9 as stated: for every message list that yields no turn, build_prompt
\* returns an empty system prompt and an empty prompt, and the caller treats
\* this as an error.
C9_AsStated ==
    (stdin.read /\ stdin.is_json /\ TurnMsgs(stdin.messages) = <<>>) =>
        /\ system = <<>>
        /\ prompt = <<>>
        /\ b_pc = "done"
        /\ out = <<NoUserMessageDelta, Sentinel>>

\* C9 as amended: for every message list that yields no turn, build_prompt
\* returns the content of the last system message (empty if there is none) as
\* system prompt and an empty prompt, and the caller treats this as an error.
C9_NoTurnNoPrompt ==
    (stdin.read /\ stdin.is_json /\ TurnMsgs(stdin.messages) = <<>>) =>
        /\ system = LastSystemContent(stdin.messages)
        /\ prompt = <<>>
        /\ b_pc = "done"
        /\ out = <<NoUserMessageDelta, Sentinel>>

\* C9 witness: a payload with system messages only was answered with the
\* error, the system content having been returned.
C9_Witness ==
    /\ stdin.read
    /\ stdin.messages = <<Msg("system", <<"a">>), Msg("system", <<"b">>)>>
    /\ system = <<"b">>
    /\ prompt = <<>>
    /\ b_pc = "done"

\* ========================================================================
\* Claims about run_tool (checked under SpecTool)
\* ========================================================================

\* Non-blank lines on the subprocess's standard output.
NonBlankCount(stdout) == Cardinality({k \in 1..Len(stdout) : ~stdout[k].blank})

\* run_tool returned a JSON object with key error.
ReturnedError(r) ==
    /\ ~r.raised
    /\ r.form = "json"
    /\ "error" \in DOMAIN r.value

\* run_tool returned the no-response error.
ReturnedNoResponse(r) ==
    /\ ReturnedError(r)
    /\ r.value.error = "No response from dashmcp"

\* C3 as stated (the code does otherwise): whatever the tool name, the
\* arguments and the outcome of a subprocess that started, run_tool returns a
\* string and lets no exception out.
C3_NeverRaises ==
    (t_pc \in {"returned", "raised"} /\ t_proc.spawned) =>
        /\ t_pc = "returned"
        /\ ~t_result.raised

\* C4 as stated: when the subprocess writes fewer than two non-blank lines to
\* standard output, run_tool returns a JSON object with key error holding the
\* no-response message, and does not raise.
C4_AsStated ==
    (t_pc \in {"returned", "raised"} /\ t_proc.spawned /\ NonBlankCount(t_proc.stdout) < 2)
        => ReturnedNoResponse(t_result)

\* C4 as amended: when the subprocess ends within the timeout having written
\* fewer than two non-blank lines to standard output, run_tool returns a JSON
\* object with key error holding the no-response message, and does not raise.
C4_FewLinesNoResponse ==
    (t_pc \in {"returned", "raised"} /\ t_proc.spawned /\ t_proc.seconds <= ToolTimeout
        /\ NonBlankCount(t_proc.stdout) < 2)
        => /\ t_pc = "returned"
           /\ ReturnedNoResponse(t_result)
           /\ t_result.value.stderr = Truncate(t_proc.stderr, StderrLimit)

\* C4 witness: a blank line and one answer were written in time, and the
\* no-response error came back.
C4_Witness ==
    /\ t_pc = "returned"
    /\ t_proc.seconds <= ToolTimeout
    /\ t_proc.stdout = <<BlankLine, InitReply>>
    /\ t_result = JsonDumps([error |-> "No response from dashmcp", stderr |-> <<"boom">>])

\* ========================================================================
\* Claims about the chat loop (checked under SpecChat)
\* ========================================================================

\* C2: when the first API call made for a user line fails, the user turn just
\* appended is removed: until the next line is read the history is the
\* history from before the line, the loop is back at the prompt (or has
\* exited from it), and that one call is the only one made for the line.
C2_FirstCallFailureRollsBack ==
    last_call = "failed_first" =>
        /\ messages = hist_at_prompt
        /\ line_calls = 1
        /\ c_pc \in {"input", "exited"}

\* C2 witness: the first call of a second exchange failed, and the history of
\* the first exchange is what is left.
C2_Witness ==
    /\ last_call = "failed_first"
    /\ c_pc = "input"
    /\ Len(messages) >= 2
    /\ api_calls >= 2

\* C10 as stated: whenever an exchange ends with an API response that carries
\* no tool-use stop condition, the history at the next prompt ends with that
\* response as an assistant turn.
C10_AsStated ==
    (c_pc = "input" /\ last_call = "ok") =>
        /\ messages # <<>>
        /\ Last(messages) = AssistantTurn(response.content)

\* C10 as amended: whenever an exchange ends with an API response that
\* carries no tool-use stop condition, the loop returns to prompting; the
\* response is appended to the history as one assistant turn if it holds at
\* least one text block, so that the history then ends with an assistant
\* turn, and otherwise nothing is appended and the history ends with the user
\* turn that came before.
C10_FinalResponseAppendedIfText ==
    /\ [][(api_calls' = api_calls + 1 /\ last_call' = "ok") =>
            /\ c_pc' = "input"
            /\ response'.stop_reason # "tool_use"
            /\ IF \E k \in 1..Len(response'.content) : response'.content[k].type = "text"
               THEN messages' = Append(messages, AssistantTurn(response'.content))
               ELSE messages' = messages /\ Last(messages).role = "user"]_vars
    /\ []((c_pc = "input" /\ last_call = "ok"
            /\ \E k \in 1..Len(response.content) : response.content[k].type = "text")
          => Last(messages) = AssistantTurn(response.content))

\* C10 witness: an exchange ended with a text response after a tool round,
\* and the response is the last turn.
C10_Witness ==
    /\ c_pc = "input"
    /\ last_call = "ok"
    /\ line_calls = 2
    /\ response.content = <<TextPart(<<"t">>)>>
    /\ Last(messages) = AssistantTurn(response.content)

\* C11 as stated (the code does otherwise): a keyboard interrupt at any point
\* of the chat loop ends the loop with the farewell message; no run ends in an
\* interrupt that nothing handled.
C11_InterruptExitsWithFarewell ==
    /\ c_pc # "interrupted"
    /\ c_pc = "exited" => farewell

\* The tool-invocation blocks of the response at hand.
ToolBlocks == SelectSeq(response.content, LAMBDA b : b.type = "tool_use")

\* `results` holds one tool_result for each of the first n tool-invocation
\* blocks, in block order, keyed by the block's identifier.
AnswersFirst(results, n) ==
    /\ Len(results) = n
    /\ \A k \in 1..n :
          /\ results[k].type = "tool_result"
          /\ results[k].tool_use_id = ToolBlocks[k].id

\* C12: in the tool loop a response with the tool-use stop condition adds the
\* assistant turn with its raw content first; the relay calls then run one at
\* a time in block order; and when the API is called again the history is the
\* history of the previous call plus exactly that assistant turn and one user
\* turn holding one tool_result per tool-invocation block, in block order,
\* each keyed by its block's identifier.
C12_ToolRoundAppendsTwoTurns ==
    /\ c_pc = "tool_exec" =>
          /\ response.stop_reason = "tool_use"
          /\ messages = hist_at_call
                            \o <<[role |-> "assistant", content |-> response.content]>>
          /\ tool_k \in 1..Len(ToolBlocks)
          /\ AnswersFirst(tool_results, tool_k - 1)
    /\ c_pc = "api_again" =>
          /\ response.stop_reason = "tool_use"
          /\ Len(messages) = Len(hist_at_call) + 2
          /\ SubSeq(messages, 1, Len(hist_at_call)) = hist_at_call
          /\ messages[Len(messages) - 1] =
                [role |-> "assistant", content |-> response.content]
          /\ Last(messages).role = "user"
          /\ AnswersFirst(Last(messages).content, Len(ToolBlocks))

\* C12 witness: a response with two tool-invocation blocks was handled and the
\* API is about to be called again.
C12_Witness ==
    /\ c_pc = "api_again"
    /\ Len(ToolBlocks) = 2
    /\ Len(Last(messages).content) = 2
    /\ Last(messages).content[2].tool_use_id = "toolu_2"

\* C16: when a call re-issued in the tool loop fails, nothing is rolled back:
\* at the next prompt the history passed to the failed call, which ends with
\* the assistant tool-use turn and the tool-result turn, is still the head of
\* the history, in the same order.
C16_FailedFollowUpKeepsHistory ==
    last_call = "failed_again" =>
        /\ c_pc \in {"input", "exited"}
        /\ Len(hist_at_call) >= Len(hist_at_prompt) + 3
        /\ Len(messages) >= Len(hist_at_call)
        /\ SubSeq(messages, 1, Len(hist_at_call)) = hist_at_call
        /\ hist_at_call[Len(hist_at_call) - 1] =
              [role |-> "assistant", content |-> response.content]
        /\ Last(hist_at_call).role = "user"
        /\ AnswersFirst(Last(hist_at_call).content, Len(ToolBlocks))

\* C16 witness: the follow-up call of a tool round with a tool-invocation
\* block failed, and the loop is back at the prompt.
C16_Witness ==
    /\ last_call = "failed_again"
    /\ c_pc = "input"
    /\ Len(ToolBlocks) >= 1
    /\ Len(messages) >= 3

\* The turns appended since the latest user line was read.
AssistantTurnsOfLine ==
    Cardinality({k \in (Len(hist_at_prompt) + 1)..Len(messages) :
                    messages[k].role = "assistant"})

\* The API responses received for the latest user line.
ResponsesOfLine ==
    line_calls - (IF last_call \in {"failed_first", "failed_again"} THEN 1 ELSE 0)

\* The identifiers of the tool-invocation blocks of a turn.
ToolIdsOf(turn) ==
    IF turn.role = "assistant"
    THEN {turn.content[k].id : k \in {j \in 1..Len(turn.content) :
                                        turn.content[j].type = "tool_use"}}
    ELSE {}

\* The identifiers the tool_results of a turn answer.
AnsweredIdsOf(turn) ==
    IF turn.role = "user"
    THEN {turn.content[k].tool_use_id : k \in {j \in 1..Len(turn.content) :
                                                 turn.content[j].type = "tool_result"}}
    ELSE {}

\* C18 as stated (the code does otherwise): the content of one API response
\* is appended to the history at most once, and whenever an API call is about
\* to be made every tool-invocation block of the history is answered in the
\* next turn by a tool_result with its identifier.
C18_ResponseAppendedOnce ==
    /\ AssistantTurnsOfLine <= ResponsesOfLine
    /\ c_pc \in {"api_first", "api_again"} =>
          \A k \in 1..Len(messages) :
              ToolIdsOf(messages[k]) # {} =>
                  /\ k < Len(messages)
                  /\ ToolIdsOf(messages[k]) \subseteq AnsweredIdsOf(messages[k + 1])

\* ========================================================================
\* Claims about the bridge's delta tracking (checked under SpecBridge)
\* ========================================================================

\* An assistant turn is under way: the message handled last was an assistant
\* message and main is still in the stream.
InTurn == b_pc = "streaming" /\ was_assistant

\* The lines written since the tracking was last cleared.
TurnOut == SubSeq(out, turn_start + 1, Len(out))

\* The block indices the messages of the turn use.
TurnIndices == UNION {0..(Len(turn_msgs[k]) - 1) : k \in 1..Len(turn_msgs)}

\* The deltas of this kind written for block index i in the turn, in order.
DeltasFor(kind, i) ==
    SelectSeq(TurnOut, LAMBDA e : e.kind = kind /\ e.blk = i)

\* The full texts delivered in the turn by blocks of this type at index i.
Deliveries(type, i) ==
    LET sel == SelectSeq(turn_msgs, LAMBDA c : i < Len(c) /\ c[i + 1].type = type)
    IN  [k \in 1..Len(sel) |-> sel[k][i + 1].text]

RECURSIVE ConcatTexts(_)
\* The texts of the deltas, one after the other.
ConcatTexts(deltas) ==
    IF deltas = <<>> THEN <<>> ELSE Head(deltas).text \o ConcatTexts(Tail(deltas))

IsPrefix(a, b) == Len(a) <= Len(b) /\ SubSeq(b, 1, Len(a)) = a

KindOf(type) == IF type = "text" THEN "content" ELSE "reasoning"

\* The lines of this kind the step under way writes for block index i.
NewFor(kind, i) ==
    SelectSeq(NewLines, LAMBDA e : e.kind = kind /\ e.blk = i)

\* The one delta due for a full text when `prev` characters were emitted.
DueDelta(kind, text, prev, i) ==
    IF Len(text) > prev
    THEN <<[kind |-> kind, text |-> SubSeq(text, prev + 1, Len(text)), blk |-> i]>>
    ELSE <<>>

\* C13: within one assistant turn the tracked count of every block index, for
\* text and for reasoning, never decreases, and the delta an assistant message
\* makes the bridge write for a text or reasoning block is exactly the part of
\* the block's full text beyond the count tracked before (none when there is
\* no such part); the count is zero for an index the turn has not seen.
C13_CountsGrowDeltasAreSuffixes ==
    [][/\ (InTurn /\ b_pc' = "streaming") =>
             \A i \in DOMAIN text_lens \cup DOMAIN think_lens :
                 /\ Get(text_lens', i) >= Get(text_lens, i)
                 /\ Get(think_lens', i) >= Get(think_lens, i)
       /\ (b_pc = "streaming" /\ consumed' = consumed + 1 /\ last_msg'.type = "assistant") =>
             \A i \in 0..(Len(last_msg'.content) - 1) :
                 LET block == last_msg'.content[i + 1]
                     prevText == IF was_assistant THEN Get(text_lens, i) ELSE 0
                     prevThink == IF was_assistant THEN Get(think_lens, i) ELSE 0
                 IN  /\ NewFor("content", i) =
                            IF block.type = "text"
                            THEN DueDelta("content", block.text, prevText, i) ELSE <<>>
                     /\ NewFor("reasoning", i) =
                            IF block.type = "thinking"
                            THEN DueDelta("reasoning", block.text, prevThink, i) ELSE <<>>
                     /\ block.type = "text" =>
                            Get(text_lens', i) \in {prevText, Len(block.text)}
                     /\ block.type = "thinking" =>
                            Get(think_lens', i) \in {prevThink, Len(block.text)}]_vars

\* C13 witness: in one turn a text grew from "a" to "ab" and was then
\* delivered as "a" again; the count went 1, 2, 2 and two deltas were written.
C13_Witness ==
    /\ InTurn
    /\ turn_msgs = <<<<TextBlock(<<"a">>)>>, <<TextBlock(<<"a", "b">>)>>, <<TextBlock(<<"a">>)>>>>
    /\ Get(text_lens, 0) = 2
    /\ TurnOut = <<ContentDelta(<<"a">>, 0), ContentDelta(<<"b">>, 0)>>

\* C14: within one assistant turn, exactly one tool-call delta has been
\* written for every block index at which the turn's messages delivered a
\* tool-invocation block, however often they did, and none for any other
\* index.
C14_ToolAnnouncedOncePerIndex ==
    InTurn =>
        \A i \in TurnIndices \cup seen_tools :
            LET delivered == \E k \in 1..Len(turn_msgs) :
                                i < Len(turn_msgs[k]) /\ turn_msgs[k][i + 1].type = "tool_use"
            IN  /\ Len(DeltasFor("tool_calls", i)) = IF delivered THEN 1 ELSE 0
                /\ i \in seen_tools <=> delivered

\* C14 witness: three consecutive assistant messages delivered a
\* tool-invocation block at index 0 and one delta was written for it.
C14_Witness ==
    /\ InTurn
    /\ turn_msgs = <<<<ToolUse1>>, <<ToolUse1>>, <<ToolUse1>>>>
    /\ Len(TurnOut) = 1
    /\ TurnOut[1].kind = "tool_calls"

\* What a line tells about its block: kind, block index, and text or call id.
Told(e) ==
    IF e.kind = "tool_calls" THEN <<e.kind, e.blk, e.id>> ELSE <<e.kind, e.blk, e.text>>

RECURSIVE InFull(_, _)
\* What is written when the blocks from index i on are emitted against empty
\* tracking: every non-empty text and reasoning in full, every tool call.
InFull(content, i) ==
    IF i >= Len(content) THEN <<>>
    ELSE LET block == content[i + 1]
             this == IF block.type = "tool_use" THEN <<<<"tool_calls", i, block.id>>>>
                     ELSE IF block.text = <<>> THEN <<>>
                     ELSE <<<<KindOf(block.type), i, block.text>>>>
         IN  this \o InFull(content, i + 1)

\* C15: after a non-assistant message the tracking counts for nothing: the
\* next assistant message makes the bridge write each of its non-empty text
\* and reasoning blocks in full and announce each of its tool-invocation
\* blocks, whatever the messages before delivered, and the tracking
\* then holds that message's blocks only.
C15_ResetAfterOtherMessage ==
    (InTurn /\ prev_msg.type = "other" /\ last_msg.type = "assistant") =>
        /\ [k \in 1..Len(TurnOut) |-> Told(TurnOut[k])] = InFull(last_msg.content, 0)
        /\ \A i \in 0..(Len(last_msg.content) - 1) :
              LET block == last_msg.content[i + 1] IN
              /\ Get(text_lens, i) = IF block.type = "text" THEN Len(block.text) ELSE 0
              /\ Get(think_lens, i) = IF block.type = "thinking" THEN Len(block.text) ELSE 0
              /\ i \in seen_tools <=> block.type = "tool_use"

\* C15 witness: an assistant message, another message, and the same assistant
\* message again: its text and its tool call were written twice.
C15_Witness ==
    /\ InTurn
    /\ consumed = 3
    /\ prev_msg.type = "other"
    /\ last_msg = AssistantMessage(<<TextBlock(<<"a", "b">>), ToolUse1>>)
    /\ out = <<ContentDelta(<<"a", "b">>, 0), ToolCallDelta(ToolUse1, 1),
               ContentDelta(<<"a", "b">>, 0), ToolCallDelta(ToolUse1, 1)>>

\* C19: within one assistant turn, when every delivery of a text (or
\* reasoning) block at index i extends the one before, the deltas written for
\* index i, put together in order, are the full text delivered last.
C19_DeltasAddUpToLatestText ==
    InTurn =>
        \A type \in {"text", "thinking"} : \A i \in TurnIndices :
            LET ds == Deliveries(type, i) IN
            (ds # <<>> /\ \A k \in 2..Len(ds) : IsPrefix(ds[k - 1], ds[k])) =>
                ConcatTexts(DeltasFor(KindOf(type), i)) = ds[Len(ds)]

\* C19 witness: a reasoning block at index 1 was delivered as "a", again as
\* "a" and then as "ab"; the deltas "a" and "b" were written for it.
C19_Witness ==
    /\ InTurn
    /\ Deliveries("thinking", 1) = <<<<"a">>, <<"a">>, <<"a", "b">>>>
    /\ DeltasFor("reasoning", 1) = <<ReasoningDelta(<<"a">>, 1), ReasoningDelta(<<"b">>, 1)>>

\* C20 as stated (the code does otherwise): the tool-call deltas written for
\* the tool-invocation blocks of one assistant message carry pairwise
\* distinct index values.
C20_ToolCallIndicesDistinct ==
    (InTurn /\ Len(turn_msgs) = 1) =>
        \A j, k \in 1..Len(TurnOut) :
            (j # k /\ TurnOut[j].kind = "tool_calls" /\ TurnOut[k].kind = "tool_calls")
                => TurnOut[j].index # TurnOut[k].index

\* ========================================================================
\* Claims about build_prompt's turn history (checked under SpecPrompt)
\* ========================================================================

\* The messages whose role is not system.
NonSystemMsgs(msgs) == SelectSeq(msgs, LAMBDA m : m.role # "system")

\* The prompt ends with this content.
PromptEndsWith(content) ==
    /\ Len(prompt) >= Len(content)
    /\ SubSeq(prompt, Len(prompt) - Len(content) + 1, Len(prompt)) = content

\* C17 as stated: every message whose role is not system contributes one
\* turn, in input order, so the turn that decides the prompt is the last
\* non-system message: its content is the prompt when it is no user message,
\* and ends the prompt when it is one.
C17_AsStated ==
    LET others == NonSystemMsgs(stdin.messages) IN
    (stdin.read /\ stdin.is_json /\ others # <<>>) =>
        /\ Len(HistoryOf(stdin.messages)) = Len(others)
        /\ IF Last(others).role = "user"
           THEN PromptEndsWith(Last(others).content)
           ELSE prompt = Last(others).content

\* C17 as amended: every user message, and every assistant message with
\* non-empty content, contributes one turn, in input order, and no other
\* message contributes any; the turn that decides the prompt is the last of
\* these messages: its content is the prompt when it is an assistant message,
\* and ends the prompt when it is a user message; with no such message the
\* prompt is empty.
C17_TurnsAreUserAndNonEmptyAssistant ==
    LET turns == TurnMsgs(stdin.messages) IN
    (stdin.read /\ stdin.is_json) =>
        /\ HistoryOf(stdin.messages) =
              [k \in 1..Len(turns) |->
                  [role |-> RoleLabel(turns[k].role), text |-> turns[k].content]]
        /\ IF turns = <<>> THEN prompt = <<>>
           ELSE IF Last(turns).role = "user" THEN PromptEndsWith(Last(turns).content)
           ELSE prompt = Last(turns).content

\* C17 witness: [user a, assistant "", tool b]: the user turn is the only
\* turn, and its content is the prompt.
C17_Witness ==
    /\ stdin.read
    /\ stdin.messages = <<Msg("user", <<"a">>), Msg("assistant", <<>>), Msg("tool", <<"b">>)>>
    /\ prompt = <<"a">>
    /\ b_pc = "streaming"

====
